---- MODULE Spec2Model ----
(***************************************************************************)
(* A model of the authentication error classifier (lib/auth-types.ts),     *)
(* the useAuth hook (hooks/useAuth.ts), the test-database provisioner      *)
(* (lib/test-db.ts), the migration runner (lib/db.ts) and the one-time     *)
(* test setup (test-setup.ts) of matthiase/memento.                        *)
(***************************************************************************)
EXTENDS Integers, Sequences, FiniteSets, TLC

VARIABLES
    \* classifier harness: the argument handed to lib/auth-types.ts and the call made
    input, call,
    \* hooks/useAuth.ts: the options, the two useState cells, the async operations
    hasOnSuccess, hasOnError, loadingState, error, ops,
    \* lib/test-db.ts: process.env.POSTGRES_URL and whether .env.test has been
    \* loaded into it, the memoized pools, the pools created so far, the
    \* databases of the PostgreSQL server, and the calls of the exported
    \* functions with the statements each sent
    env, envLoaded, adminSql, testSql, pools, server, calls,
    \* lib/db.ts: the migrations directory and the runMigrations call
    migrationsDir, run,
    \* test-setup.ts: the memoized promise and what setupTestDatabase's callers got
    dbSetupPromise, setupCallers

classifierVars == <<input, call>>
hookVars == <<hasOnSuccess, hasOnError, loadingState, error, ops>>
dbVars == <<env, envLoaded, adminSql, testSql, pools, server, calls>>

migrationVars == <<migrationsDir, run>>

setupVars == <<dbSetupPromise, setupCallers>>
vars == <<input, call, hasOnSuccess, hasOnError, loadingState, error, ops,
          env, envLoaded, adminSql, testSql, pools, server, calls, migrationsDir, run,
          dbSetupPromise, setupCallers>>

\* ---------------------------------------------------------------- values
\* JavaScript null for object-valued fields (result.data, result.error).
NullObj == [null |-> TRUE]
\* JavaScript null for the hook's `error: string | null`.
NullStr == "<null>"
\* JavaScript undefined for an absent optional string field (error.code).
Undefined == "<undefined>"

\* ------------------------------------------------- lib/auth-types.ts
BASE_ERROR_CODES ==
    [ USER_NOT_FOUND |-> "User not found",
      FAILED_TO_CREATE_USER |-> "Failed to create user",
      FAILED_TO_CREATE_SESSION |-> "Failed to create session",
      FAILED_TO_UPDATE_USER |-> "Failed to update user",
      FAILED_TO_GET_SESSION |-> "Failed to get session",
      INVALID_PASSWORD |-> "Invalid password",
      INVALID_EMAIL |-> "Invalid email",
      INVALID_EMAIL_OR_PASSWORD |-> "Invalid email or password",
      SOCIAL_ACCOUNT_ALREADY_LINKED |-> "Social account already linked",
      PROVIDER_NOT_FOUND |-> "Provider not found",
      INVALID_TOKEN |-> "Invalid token",
      ID_TOKEN_NOT_SUPPORTED |-> "id_token not supported",
      FAILED_TO_GET_USER_INFO |-> "Failed to get user info",
      USER_EMAIL_NOT_FOUND |-> "User email not found",
      EMAIL_NOT_VERIFIED |-> "Email not verified",
      PASSWORD_TOO_SHORT |-> "Password too short",
      PASSWORD_TOO_LONG |-> "Password too long",
      USER_ALREADY_EXISTS |-> "User already exists. Use another email.",
      EMAIL_CAN_NOT_BE_UPDATED |-> "Email can not be updated",
      CREDENTIAL_ACCOUNT_NOT_FOUND |-> "Credential account not found",
      SESSION_EXPIRED |-> "Session expired. Re-authenticate to perform this action.",
      FAILED_TO_UNLINK_LAST_ACCOUNT |-> "You can't unlink your last account",
      ACCOUNT_NOT_FOUND |-> "Account not found",
      USER_ALREADY_HAS_PASSWORD |-> "User already has a password. Provide that to delete the account." ]

\* Object.keys / Object.entries order of BASE_ERROR_CODES (insertion order).
CodeOrder ==
    << "USER_NOT_FOUND",
       "FAILED_TO_CREATE_USER",
       "FAILED_TO_CREATE_SESSION",
       "FAILED_TO_UPDATE_USER",
       "FAILED_TO_GET_SESSION",
       "INVALID_PASSWORD",
       "INVALID_EMAIL",
       "INVALID_EMAIL_OR_PASSWORD",
       "SOCIAL_ACCOUNT_ALREADY_LINKED",
       "PROVIDER_NOT_FOUND",
       "INVALID_TOKEN",
       "ID_TOKEN_NOT_SUPPORTED",
       "FAILED_TO_GET_USER_INFO",
       "USER_EMAIL_NOT_FOUND",
       "EMAIL_NOT_VERIFIED",
       "PASSWORD_TOO_SHORT",
       "PASSWORD_TOO_LONG",
       "USER_ALREADY_EXISTS",
       "EMAIL_CAN_NOT_BE_UPDATED",
       "CREDENTIAL_ACCOUNT_NOT_FOUND",
       "SESSION_EXPIRED",
       "FAILED_TO_UNLINK_LAST_ACCOUNT",
       "ACCOUNT_NOT_FOUND",
       "USER_ALREADY_HAS_PASSWORD" >>

BetterAuthErrorCode == DOMAIN BASE_ERROR_CODES

\* A friendly table that repeats the provider's canonical messages.
FriendlyMessagesCopiedFromBase == BASE_ERROR_CODES

USER_FRIENDLY_ERROR_MESSAGES ==
    [ USER_NOT_FOUND |-> "No account found with this email address.",
      FAILED_TO_CREATE_USER |-> "Failed to create your account. Please try again.",
      FAILED_TO_CREATE_SESSION |-> "Unable to sign you in. Please try again.",
      FAILED_TO_UPDATE_USER |-> "Failed to update your account.",
      FAILED_TO_GET_SESSION |-> "Session error. Please try signing in again.",
      INVALID_PASSWORD |-> "Incorrect password. Please try again.",
      INVALID_EMAIL |-> "Please enter a valid email address.",
      INVALID_EMAIL_OR_PASSWORD |-> "Invalid email or password. Please check your credentials.",
      SOCIAL_ACCOUNT_ALREADY_LINKED |-> "This social account is already linked to another user.",
      PROVIDER_NOT_FOUND |-> "Authentication provider not available.",
      INVALID_TOKEN |-> "Invalid authentication token. Please try again.",
      ID_TOKEN_NOT_SUPPORTED |-> "This authentication method is not supported.",
      FAILED_TO_GET_USER_INFO |-> "Failed to retrieve user information.",
      USER_EMAIL_NOT_FOUND |-> "No email address found for this account.",
      EMAIL_NOT_VERIFIED |-> "Please verify your email address before signing in.",
      PASSWORD_TOO_SHORT |-> "Password is too short. Please use at least 8 characters.",
      PASSWORD_TOO_LONG |-> "Password is too long. Please use fewer than 128 characters.",
      USER_ALREADY_EXISTS |-> "An account with this email already exists. Please sign in instead.",
      EMAIL_CAN_NOT_BE_UPDATED |-> "Unable to update email address at this time.",
      CREDENTIAL_ACCOUNT_NOT_FOUND |-> "Account credentials not found.",
      SESSION_EXPIRED |-> "Your session has expired. Please sign in again.",
      FAILED_TO_UNLINK_LAST_ACCOUNT |-> "You can't remove your last sign-in method.",
      ACCOUNT_NOT_FOUND |-> "Account not found.",
      USER_ALREADY_HAS_PASSWORD |-> "You already have a password set for this account." ]

\* JavaScript truthiness of an optional string: undefined and "" are falsy.
Truthy(s) == s # Undefined /\ s # ""

\* table[key] on an object literal: undefined for a key the table lacks (the
\* keys considered are provider error codes, none of which names a property
\* that object literals inherit).
Lookup(table, key) == IF key \in DOMAIN table THEN table[key] ELSE Undefined

isAuthError(response) == response.error # NullObj

\* A success guard that forgets to look at the error field.
isAuthSuccessDataOnly(response) == response.data # NullObj

isAuthSuccess(response) == response.data # NullObj /\ response.error = NullObj

isErrorCode(err, code) ==
    err.code = code \/ err.message = BASE_ERROR_CODES[code]

\* The for..of loop over Object.entries(BASE_ERROR_CODES), from entry i on:
\* the friendly message of the first entry whose canonical message equals
\* `message`, Undefined when the loop runs off the end.
RECURSIVE ScanBaseMessages(_, _)
ScanBaseMessages(message, i) ==
    IF i > Len(CodeOrder) THEN Undefined
    ELSE IF message = BASE_ERROR_CODES[CodeOrder[i]]
         THEN USER_FRIENDLY_ERROR_MESSAGES[CodeOrder[i]]
         ELSE ScanBaseMessages(message, i + 1)

GenericFallback == "An unexpected error occurred. Please try again."

\* A variant that sniffs the message before it looks at the code.
getUserFriendlyErrorMessageMessageFirst(err) ==
    IF ScanBaseMessages(err.message, 1) # Undefined
    THEN ScanBaseMessages(err.message, 1)
    ELSE IF Truthy(err.code) /\ Truthy(Lookup(USER_FRIENDLY_ERROR_MESSAGES, err.code))
         THEN USER_FRIENDLY_ERROR_MESSAGES[err.code]
         ELSE IF Truthy(err.message) THEN err.message ELSE GenericFallback

\* A variant whose last line lacks the `|| "An unexpected error ..."` default.
getUserFriendlyErrorMessageNoDefault(err) ==
    IF Truthy(err.code) /\ Truthy(Lookup(USER_FRIENDLY_ERROR_MESSAGES, err.code))
    THEN USER_FRIENDLY_ERROR_MESSAGES[err.code]
    ELSE IF ScanBaseMessages(err.message, 1) # Undefined
         THEN ScanBaseMessages(err.message, 1)
         ELSE err.message

getUserFriendlyErrorMessage(err) ==
    IF Truthy(err.code) /\ Truthy(Lookup(USER_FRIENDLY_ERROR_MESSAGES, err.code))
    THEN USER_FRIENDLY_ERROR_MESSAGES[err.code]
    ELSE IF ScanBaseMessages(err.message, 1) # Undefined
         THEN ScanBaseMessages(err.message, 1)
         ELSE IF Truthy(err.message) THEN err.message ELSE GenericFallback

\* AUTH_ERROR_HANDLERS.signIn with the USER_NOT_FOUND check moved to the front.
signInUserNotFoundFirst(err) ==
    IF isErrorCode(err, "USER_NOT_FOUND")
    THEN "No account found with this email. Please check the email address or sign up."
    ELSE IF isErrorCode(err, "INVALID_EMAIL_OR_PASSWORD")
    THEN "Invalid email or password. Please check your credentials and try again."
    ELSE IF isErrorCode(err, "EMAIL_NOT_VERIFIED")
    THEN "Please check your email and click the verification link before signing in."
    ELSE getUserFriendlyErrorMessage(err)

\* AUTH_ERROR_HANDLERS.signIn
signIn(err) ==
    IF isErrorCode(err, "INVALID_EMAIL_OR_PASSWORD")
    THEN "Invalid email or password. Please check your credentials and try again."
    ELSE IF isErrorCode(err, "EMAIL_NOT_VERIFIED")
    THEN "Please check your email and click the verification link before signing in."
    ELSE IF isErrorCode(err, "USER_NOT_FOUND")
    THEN "No account found with this email. Please check the email address or sign up."
    ELSE getUserFriendlyErrorMessage(err)

\* AUTH_ERROR_HANDLERS.signUp with a phrase of its own for an existing account.
signUpOwnPhrase(err) ==
    IF isErrorCode(err, "USER_ALREADY_EXISTS")
    THEN "This email is already registered. Please sign in instead."
    ELSE IF isErrorCode(err, "INVALID_EMAIL")
    THEN "Please enter a valid email address."
    ELSE getUserFriendlyErrorMessage(err)

\* AUTH_ERROR_HANDLERS.signUp
signUp(err) ==
    IF isErrorCode(err, "USER_ALREADY_EXISTS")
    THEN "An account with this email already exists. Please sign in instead."
    ELSE IF isErrorCode(err, "INVALID_EMAIL")
    THEN "Please enter a valid email address."
    ELSE IF isErrorCode(err, "PASSWORD_TOO_SHORT") \/ isErrorCode(err, "PASSWORD_TOO_LONG")
    THEN getUserFriendlyErrorMessage(err)
    ELSE getUserFriendlyErrorMessage(err)

\* AUTH_ERROR_HANDLERS.social
social(err) ==
    IF isErrorCode(err, "SOCIAL_ACCOUNT_ALREADY_LINKED")
    THEN "This social account is already linked to another user."
    ELSE IF isErrorCode(err, "PROVIDER_NOT_FOUND")
    THEN "Social sign-in is temporarily unavailable. Please try again later."
    ELSE IF isErrorCode(err, "FAILED_TO_GET_USER_INFO")
    THEN "Unable to retrieve information from your social account. Please try again."
    ELSE getUserFriendlyErrorMessage(err)

\* ------------------------------------------- classifier inputs and calls
Session == [user |-> "u1"]

UnknownCode == "RATE_LIMIT_EXCEEDED"

\* error.code: absent, a member of the enumeration, or a provider code the
\* enumeration lacks.
ErrorCodes == {Undefined, UnknownCode} \cup BetterAuthErrorCode

\* error.message: every canonical message, the empty string, free text, and a
\* text that is a friendly message but no canonical one.
ErrorMessages ==
    {BASE_ERROR_CODES[c] : c \in BetterAuthErrorCode}
        \cup {"", "Some technical message", "Account not found."}

ErrorDetails == [code : ErrorCodes, message : ErrorMessages]

AuthResponses == [data : {NullObj, Session}, error : {NullObj} \cup ErrorDetails]

NoCall == [op |-> "none"]

InitClassifier ==
    /\ input \in AuthResponses
    /\ call = NoCall

\* The classifier at rest, for the specifications of the other components.
ClassifierIdle ==
    /\ input = [data |-> Session, error |-> NullObj]
    /\ call = NoCall

CallIsAuthError ==
    /\ call' = [op |-> "isAuthError", ret |-> isAuthError(input)]
    /\ UNCHANGED <<input, hookVars, dbVars, migrationVars, setupVars>>

CallIsAuthSuccess ==
    /\ call' = [op |-> "isAuthSuccess", ret |-> isAuthSuccess(input)]
    /\ UNCHANGED <<input, hookVars, dbVars, migrationVars, setupVars>>

CallIsErrorCode ==
    /\ input.error # NullObj
    /\ \E code \in BetterAuthErrorCode :
          call' = [op |-> "isErrorCode", code |-> code,
                   ret |-> isErrorCode(input.error, code)]
    /\ UNCHANGED <<input, hookVars, dbVars, migrationVars, setupVars>>

CallGetUserFriendlyErrorMessage ==
    /\ input.error # NullObj
    /\ call' = [op |-> "getUserFriendlyErrorMessage",
                ret |-> getUserFriendlyErrorMessage(input.error)]
    /\ UNCHANGED <<input, hookVars, dbVars, migrationVars, setupVars>>

CallSignInHandler ==
    /\ input.error # NullObj
    /\ call' = [op |-> "signIn", ret |-> signIn(input.error)]
    /\ UNCHANGED <<input, hookVars, dbVars, migrationVars, setupVars>>

CallSignUpHandler ==
    /\ input.error # NullObj
    /\ call' = [op |-> "signUp", ret |-> signUp(input.error)]
    /\ UNCHANGED <<input, hookVars, dbVars, migrationVars, setupVars>>

CallSocialHandler ==
    /\ input.error # NullObj
    /\ call' = [op |-> "social", ret |-> social(input.error)]
    /\ UNCHANGED <<input, hookVars, dbVars, migrationVars, setupVars>>

\* ------------------------------------------------------ hooks/useAuth.ts
MaxOps == 2

OpIds == 1..MaxOps

Providers == {"github", "google"}

\* What the authentication client hands back to the hook: a result object, or
\* an exception (a rejected promise or a throwing call).
HookErrorDetails ==
    { [code |-> "INVALID_EMAIL_OR_PASSWORD", message |-> "Invalid email or password"],
      [code |-> Undefined, message |-> "Provider not found"] }

\* A success result, a failure result, and the result with neither data nor error.
HookResponses ==
    {[data |-> Session, error |-> NullObj], [data |-> NullObj, error |-> NullObj]}
        \cup {[data |-> NullObj, error |-> e] : e \in HookErrorDetails}

Pending == [kind |-> "pending"]

ClientOutcomes == {[kind |-> "throw"]} \cup {[kind |-> "result", result |-> r] : r \in HookResponses}

EmailUnexpected ==
    "An unexpected error occurred. Please check your connection and try again."

SocialUnexpected(provider) ==
    "Unable to connect to " \o provider \o ". Please check your connection and try again."

NewOp ==
    [kind |-> "none", pc |-> "new", provider |-> "", outcome |-> Pending,
     nSuccess |-> 0, nError |-> 0, onErrorArgs |-> <<>>]

InitHook ==
    /\ hasOnSuccess \in BOOLEAN
    /\ hasOnError \in BOOLEAN
    /\ loadingState = "idle"
    /\ error = NullStr
    /\ ops = [o \in OpIds |-> NewOp]

\* The hook never mounted, for the specifications of the other components.
HookIdle ==
    /\ hasOnSuccess = FALSE
    /\ hasOnError = FALSE
    /\ loadingState = "idle"
    /\ error = NullStr
    /\ ops = [o \in OpIds |-> NewOp]

\* onSuccess?.(x) / onError?.(x): one more invocation when the option is given.
Invoke(given, n) == IF given THEN n + 1 ELSE n

\* onError?.(message): the arguments onError has received so far.
InvokeWith(given, args, message) == IF given THEN Append(args, message) ELSE args

\* The try block after the await: [error, nSuccess, nError, onErrorArgs, threw], where
\* threw says that control leaves the block by an exception. errorMessage is
\* the handler's text for a failure result; cbThrows says whether the callback
\* invoked in the block throws.
TryBlock(error0, outcome, errorMessage, cbThrows) ==
    IF outcome.kind = "throw"
    THEN [error |-> error0, nSuccess |-> 0, nError |-> 0, onErrorArgs |-> <<>>,
          threw |-> TRUE]
    ELSE IF isAuthError(outcome.result)
         THEN [error |-> errorMessage, nSuccess |-> 0,
               nError |-> Invoke(hasOnError, 0),
               onErrorArgs |-> InvokeWith(hasOnError, <<>>, errorMessage),
               threw |-> hasOnError /\ cbThrows]
         ELSE [error |-> error0, nSuccess |-> Invoke(hasOnSuccess, 0),
               nError |-> 0, onErrorArgs |-> <<>>, threw |-> hasOnSuccess /\ cbThrows]

\* The catch block that records the error without telling onError.
CatchBlockSilent(t, errorMessage, cbThrows) ==
    [error |-> errorMessage, nSuccess |-> t.nSuccess, nError |-> t.nError,
     onErrorArgs |-> t.onErrorArgs, threw |-> FALSE]

\* The catch block, entered when the try block threw.
CatchBlock(t, errorMessage, cbThrows) ==
    [error |-> errorMessage, nSuccess |-> t.nSuccess,
     nError |-> Invoke(hasOnError, t.nError),
     onErrorArgs |-> InvokeWith(hasOnError, t.onErrorArgs, errorMessage),
     threw |-> hasOnError /\ cbThrows]

\* signInWithEmail whose finally block is gone: idle is set on the error
\* paths only, as signInWithSocial does.
signInWithEmailSettleNoFinally(loading0, error0, outcome, cb1Throws, cb2Throws) ==
    LET errorMessage == IF outcome.kind = "result" /\ isAuthError(outcome.result)
                        THEN signIn(outcome.result.error) ELSE ""
        t == TryBlock(error0, outcome, errorMessage, cb1Throws)
        c == IF t.threw THEN CatchBlock(t, EmailUnexpected, cb2Throws) ELSE t
    IN  [loadingState |-> IF t.threw \/ (outcome.kind = "result" /\ isAuthError(outcome.result))
                          THEN "idle" ELSE loading0,
         error |-> c.error, nSuccess |-> c.nSuccess, nError |-> c.nError,
         onErrorArgs |-> c.onErrorArgs,
         pc |-> IF c.threw THEN "rejected" ELSE "resolved"]

\* signInWithEmail from the resumption of `await signIn.email(...)` to the
\* settling of its promise (one synchronous run: the callbacks are not awaited).
signInWithEmailSettle(loading0, error0, outcome, cb1Throws, cb2Throws) ==
    LET errorMessage == IF outcome.kind = "result" /\ isAuthError(outcome.result)
                        THEN signIn(outcome.result.error) ELSE ""
        t == TryBlock(error0, outcome, errorMessage, cb1Throws)
        c == IF t.threw THEN CatchBlock(t, EmailUnexpected, cb2Throws) ELSE t
    IN  [loadingState |-> "idle",
         error |-> c.error, nSuccess |-> c.nSuccess, nError |-> c.nError,
         onErrorArgs |-> c.onErrorArgs,
         pc |-> IF c.threw THEN "rejected" ELSE "resolved"]

\* signInWithSocial from the resumption of `await signIn.social(...)` on.
signInWithSocialSettle(loading0, error0, provider, outcome, cb1Throws, cb2Throws) ==
    LET failure == outcome.kind = "result" /\ isAuthError(outcome.result)
        errorMessage == IF failure THEN social(outcome.result.error) ELSE ""
        t == TryBlock(error0, outcome, errorMessage, cb1Throws)
        c == IF t.threw THEN CatchBlock(t, SocialUnexpected(provider), cb2Throws) ELSE t
    IN  [loadingState |-> IF failure \/ t.threw THEN "idle" ELSE loading0,
         error |-> c.error, nSuccess |-> c.nSuccess, nError |-> c.nError,
         onErrorArgs |-> c.onErrorArgs,
         pc |-> IF c.threw THEN "rejected" ELSE "resolved"]

\* The next operation to be invoked: operations are numbered in invocation order.
NextOp(o) == ops[o].pc = "new" /\ \A p \in OpIds : p < o => ops[p].pc # "new"

\* signInWithEmail that leaves the error string as it finds it.
SignInWithEmailStartKeepingError(o) ==
    /\ NextOp(o)
    /\ loadingState' = "email"
    /\ ops' = [ops EXCEPT ![o] = [@ EXCEPT !.kind = "email", !.pc = "awaiting"]]
    /\ UNCHANGED <<error, hasOnSuccess, hasOnError, classifierVars, dbVars, migrationVars, setupVars>>

\* signInWithEmail up to its await: lines 122-126.
SignInWithEmailStart(o) ==
    /\ NextOp(o)
    /\ loadingState' = "email"
    /\ error' = NullStr
    /\ ops' = [ops EXCEPT ![o] = [@ EXCEPT !.kind = "email", !.pc = "awaiting"]]
    /\ UNCHANGED <<hasOnSuccess, hasOnError, classifierVars, dbVars, migrationVars, setupVars>>

SignInWithEmailSettle(o) ==
    /\ ops[o].kind = "email" /\ ops[o].pc = "awaiting"
    /\ \E outcome \in ClientOutcomes, cb1Throws \in BOOLEAN, cb2Throws \in BOOLEAN :
         LET r == signInWithEmailSettle(loadingState, error, outcome, cb1Throws, cb2Throws)
         IN  /\ loadingState' = r.loadingState
             /\ error' = r.error
             /\ ops' = [ops EXCEPT ![o] = [@ EXCEPT !.pc = r.pc, !.outcome = outcome,
                                             !.nSuccess = r.nSuccess, !.nError = r.nError,
                                             !.onErrorArgs = r.onErrorArgs]]
    /\ UNCHANGED <<hasOnSuccess, hasOnError, classifierVars, dbVars, migrationVars, setupVars>>

\* signInWithSocial up to its await: lines 157-161.
SignInWithSocialStart(o) ==
    /\ NextOp(o)
    /\ \E provider \in Providers :
         ops' = [ops EXCEPT ![o] = [@ EXCEPT !.kind = "social", !.pc = "awaiting",
                                         !.provider = provider]]
    /\ loadingState' = "social"
    /\ error' = NullStr
    /\ UNCHANGED <<hasOnSuccess, hasOnError, classifierVars, dbVars, migrationVars, setupVars>>

SignInWithSocialSettle(o) ==
    /\ ops[o].kind = "social" /\ ops[o].pc = "awaiting"
    /\ \E outcome \in ClientOutcomes, cb1Throws \in BOOLEAN, cb2Throws \in BOOLEAN :
         LET r == signInWithSocialSettle(loadingState, error, ops[o].provider, outcome,
                                         cb1Throws, cb2Throws)
         IN  /\ loadingState' = r.loadingState
             /\ error' = r.error
             /\ ops' = [ops EXCEPT ![o] = [@ EXCEPT !.pc = r.pc, !.outcome = outcome,
                                             !.nSuccess = r.nSuccess, !.nError = r.nError,
                                             !.onErrorArgs = r.onErrorArgs]]
    /\ UNCHANGED <<hasOnSuccess, hasOnError, classifierVars, dbVars, migrationVars, setupVars>>

\* clearError that also puts loadingState back to idle.
clearErrorResettingLoadingState ==
    /\ loadingState' = "idle"
    /\ error' = NullStr
    /\ UNCHANGED <<hasOnSuccess, hasOnError, ops, classifierVars, dbVars, migrationVars, setupVars>>

clearError ==
    /\ error' = NullStr
    /\ UNCHANGED <<hasOnSuccess, hasOnError, loadingState, ops, classifierVars, dbVars, migrationVars, setupVars>>

reset ==
    /\ loadingState' = "idle"
    /\ error' = NullStr
    /\ UNCHANGED <<hasOnSuccess, hasOnError, ops, classifierVars, dbVars, migrationVars, setupVars>>

\* -------------------------------------------------------- lib/test-db.ts
MaxCalls == 2

CallIds == 1..MaxCalls

\* Database names, as the sequences of their characters.
Memento == <<"m", "e", "m", "e", "n", "t", "o">>
MementoTest == Memento \o <<"_", "t", "e", "s", "t">>
Latest == <<"l", "a", "t", "e", "s", "t">>
TestInTheMiddle == <<"a", "_", "t", "e", "s", "t", "_", "b">>

DatabaseNames == {Memento, MementoTest, Latest, TestInTheMiddle}

\* process.env.POSTGRES_URL as `new URL` sees it: unparsable (or unset), or a
\* URL whose pathname is "/" followed by the database name.
UnparsableUrl == [ok |-> FALSE, pathname |-> <<>>]

EnvUrls ==
    {UnparsableUrl}
        \cup {[ok |-> TRUE, pathname |-> <<"/">> \o n] : n \in DatabaseNames}

\* String.prototype.slice(1)
Slice1(s) == IF s = <<>> THEN <<>> ELSE Tail(s)

\* String.prototype.includes
Includes(s, sub) ==
    \E i \in 0..(Len(s) - Len(sub)) : SubSeq(s, i + 1, i + Len(sub)) = sub

\* A guard that looks for 'test' without the underscore.
ContainsTestWithoutUnderscore(name) == Includes(name, <<"t", "e", "s", "t">>)

\* The safety check of recreateTestDatabase: currentTestDbName.includes('_test')
IsTestDatabaseName(name) == Includes(name, <<"_", "t", "e", "s", "t">>)

NoPool == 0

\* ------------------------------------------------ the PostgreSQL server
\* The objects of migrations/001_better_auth_tables.sql.
Tables == {"user", "session", "account", "verification"}

Indexes ==
    {"idx_session_userId", "idx_session_token", "idx_account_userId",
     "idx_account_providerId", "idx_verification_identifier"}

\* The migration file without its last table and that table's index.
MigrationWithoutVerification ==
    << [object |-> "user", ifNotExists |-> TRUE, needs |-> {}],
       [object |-> "session", ifNotExists |-> TRUE, needs |-> {"user"}],
       [object |-> "account", ifNotExists |-> TRUE, needs |-> {"user"}],
       [object |-> "idx_session_userId", ifNotExists |-> TRUE, needs |-> {"session"}],
       [object |-> "idx_session_token", ifNotExists |-> TRUE, needs |-> {"session"}],
       [object |-> "idx_account_userId", ifNotExists |-> TRUE, needs |-> {"account"}],
       [object |-> "idx_account_providerId", ifNotExists |-> TRUE, needs |-> {"account"}] >>

\* The statements of the migration file, in file order: the object each one
\* creates, whether it says IF NOT EXISTS, and the objects it refers to.
Migration ==
    << [object |-> "user", ifNotExists |-> TRUE, needs |-> {}],
       [object |-> "session", ifNotExists |-> TRUE, needs |-> {"user"}],
       [object |-> "account", ifNotExists |-> TRUE, needs |-> {"user"}],
       [object |-> "verification", ifNotExists |-> TRUE, needs |-> {}],
       [object |-> "idx_session_userId", ifNotExists |-> TRUE, needs |-> {"session"}],
       [object |-> "idx_session_token", ifNotExists |-> TRUE, needs |-> {"session"}],
       [object |-> "idx_account_userId", ifNotExists |-> TRUE, needs |-> {"account"}],
       [object |-> "idx_account_providerId", ifNotExists |-> TRUE, needs |-> {"account"}],
       [object |-> "idx_verification_identifier", ifNotExists |-> TRUE,
        needs |-> {"verification"}] >>

\* CREATE TABLE / CREATE INDEX that fails on an object that is there already,
\* as if the file did not say IF NOT EXISTS.
ExecStatementWithoutIfNotExists(stmt, objects) ==
    IF stmt.object \in objects
    THEN [ok |-> FALSE, objects |-> objects]
    ELSE IF stmt.needs \subseteq objects
         THEN [ok |-> TRUE, objects |-> objects \cup {stmt.object}]
         ELSE [ok |-> FALSE, objects |-> objects]

\* One CREATE TABLE / CREATE INDEX on a database holding `objects`: an object
\* of that name makes it a no-op with IF NOT EXISTS and an error without; a
\* missing referenced table is an error.
ExecStatement(stmt, objects) ==
    IF stmt.object \in objects
    THEN [ok |-> stmt.ifNotExists, objects |-> objects]
    ELSE IF stmt.needs \subseteq objects
         THEN [ok |-> TRUE, objects |-> objects \cup {stmt.object}]
         ELSE [ok |-> FALSE, objects |-> objects]

\* The statements from the i-th on, stopping at the first error.
RECURSIVE ExecFrom(_, _, _)
ExecFrom(stmts, i, objects) ==
    IF i > Len(stmts)
    THEN [ok |-> TRUE, objects |-> objects]
    ELSE LET r == ExecStatement(stmts[i], objects)
         IN  IF r.ok THEN ExecFrom(stmts, i + 1, r.objects) ELSE r

\* unsafe(migration): the whole file is one simple query, which the server
\* runs as one transaction: all of it, or an error and nothing.
ExecMigration(objects) ==
    LET r == ExecFrom(Migration, 1, objects)
    IN  IF r.ok THEN r ELSE [ok |-> FALSE, objects |-> objects]

\* A database of the server: whether it exists, its schema objects, and
\* whether its tables hold rows.
NoDatabase == [exists |-> FALSE, objects |-> {}, rows |-> FALSE]

EmptyDatabase == [exists |-> TRUE, objects |-> {}, rows |-> FALSE]

\* A database that earlier runs migrated and filled, and in which an earlier
\* suite left a table of its own behind.
UsedDatabase == [exists |-> TRUE, objects |-> Tables \cup Indexes \cup {"leftover"}, rows |-> TRUE]

\* The server before the test process starts: the development database and
\* the test database of an earlier run exist.
InitServer ==
    [n \in DatabaseNames |->
        IF n \in {Memento, MementoTest} THEN UsedDatabase ELSE NoDatabase]

\* ------------------------------------------------------ calls and pools
\* A call of recreateTestDatabase, runTestMigrations or cleanupTestDatabase:
\* which one, where it is, recreate's local currentTestDbName, the statements
\* and end() calls it has issued so far, the step whose error reached its
\* catch block and where that error came from, and the number of pools in
\* existence when it was invoked.
NewCall ==
    [kind |-> "none", pc |-> "new", name |-> <<>>, sent |-> <<>>, failedAt |-> "",
     cause |-> "", poolsAtCall |-> 0]

\* Calls are numbered in invocation order.
NextCall(c) == calls[c].pc = "new" /\ \A b \in CallIds : b < c => calls[b].pc # "new"

Threw(rec, step) == [rec EXCEPT !.pc = "threw", !.failedAt = step]

\* The catch block of cleanupTestDatabase, made to re-throw.
cleanupCatchRethrows(rec) == Threw(rec, "end")

\* The catch block of cleanupTestDatabase: the error is logged, the call
\* returns.
cleanupCatch(rec) == [rec EXCEPT !.pc = "done", !.failedAt = "end"]

InitDb ==
    /\ env \in EnvUrls
    /\ envLoaded = FALSE
    /\ adminSql = NoPool
    /\ testSql = NoPool
    /\ pools = <<>>
    /\ server = InitServer
    /\ calls = [c \in CallIds |-> NewCall]

\* The provisioner never loaded, for the specifications of the other components.
DbIdle ==
    /\ env = UnparsableUrl
    /\ envLoaded = FALSE
    /\ adminSql = NoPool
    /\ testSql = NoPool
    /\ pools = <<>>
    /\ server = InitServer
    /\ calls = [c \in CallIds |-> NewCall]

\* getAdminConnection: [sql, pools] after the call. The pool connects to the
\* maintenance database 'postgres'.
getAdminConnection ==
    IF adminSql = NoPool
    THEN [sql |-> Len(pools) + 1,
          pools |-> Append(pools, [role |-> "admin",
                                   database |-> <<"p", "o", "s", "t", "g", "r", "e", "s">>,
                                   ended |-> FALSE])]
    ELSE [sql |-> adminSql, pools |-> pools]

\* getTestConnection that builds a pool on every call.
getTestConnectionUnmemoized(ps) ==
    [sql |-> Len(ps) + 1,
     pools |-> Append(ps, [role |-> "test", database |-> Slice1(env.pathname),
                           ended |-> FALSE])]

\* getTestConnection on the pools ps: the pool is bound to the database that
\* process.env.POSTGRES_URL names when the pool is created.
getTestConnection(ps) ==
    IF testSql = NoPool
    THEN [sql |-> Len(ps) + 1,
          pools |-> Append(ps, [role |-> "test", database |-> Slice1(env.pathname),
                                ended |-> FALSE])]
    ELSE [sql |-> testSql, pools |-> ps]

\* pool.unsafe(text): the statement as issued. A pool whose end() has been
\* called rejects it.
Statement(ps, p, kind, db) ==
    [pool |-> p, kind |-> kind, db |-> db, rejected |-> ps[p].ended]

\* pool.end(): the pool takes no further statements.
End(ps, p) == [ps EXCEPT ![p].ended = TRUE]

LastSent(rec) == rec.sent[Len(rec.sent)]

\* The test setup loads .env.test, once, and with it another
\* process.env.POSTGRES_URL than the process started with.
SetEnv ==
    /\ ~envLoaded
    /\ envLoaded' = TRUE
    /\ \E u \in EnvUrls : u # env /\ env' = u
    /\ UNCHANGED <<adminSql, testSql, pools, server, calls, classifierVars, hookVars, migrationVars, setupVars>>

\* A test calls the exported getter testSql().
CallTestSql ==
    /\ LET test == getTestConnection(pools)
       IN  /\ testSql' = test.sql
           /\ pools' = test.pools
    /\ UNCHANGED <<env, envLoaded, adminSql, server, calls, classifierVars, hookVars, migrationVars, setupVars>>

\* The afterAll hook of a test file (lines 257-260): the test pool is taken
\* from the getter and ended.
AfterAllEndTestPool ==
    /\ LET test == getTestConnection(pools)
       IN  /\ testSql' = test.sql
           /\ pools' = End(test.pools, test.sql)
    /\ UNCHANGED <<env, envLoaded, adminSql, server, calls, classifierVars, hookVars, migrationVars, setupVars>>

\* recreateTestDatabase up to its first await (lines 138-154): the URL is
\* parsed, the name checked, and DROP DATABASE sent on the admin pool; or the
\* catch block re-throws.
recreateTestDatabase(c) ==
    /\ NextCall(c)
    /\ IF ~env.ok
       THEN /\ calls' = [calls EXCEPT ![c] =
                           Threw([@ EXCEPT !.kind = "recreate", !.poolsAtCall = Len(pools)],
                                 "url")]
            /\ UNCHANGED <<adminSql, pools>>
       ELSE LET currentTestDbName == Slice1(env.pathname)
                admin == getAdminConnection
            IN  IF ~IsTestDatabaseName(currentTestDbName)
                THEN /\ calls' = [calls EXCEPT ![c] =
                                    Threw([@ EXCEPT !.kind = "recreate",
                                                    !.poolsAtCall = Len(pools),
                                                    !.name = currentTestDbName], "guard")]
                     /\ UNCHANGED <<adminSql, pools>>
                ELSE /\ adminSql' = admin.sql
                     /\ pools' = admin.pools
                     /\ calls' = [calls EXCEPT ![c] =
                                    [@ EXCEPT !.kind = "recreate", !.pc = "dropping",
                                              !.poolsAtCall = Len(pools),
                                              !.name = currentTestDbName,
                                              !.sent = Append(@, Statement(admin.pools, admin.sql,
                                                                 "DROP", currentTestDbName))]]
    /\ UNCHANGED <<env, envLoaded, testSql, server, classifierVars, hookVars, migrationVars>>

\* A test or script calls recreateTestDatabase itself.
RecreateStart(c) == recreateTestDatabase(c) /\ UNCHANGED setupVars

\* The DROP settles, and CREATE DATABASE is sent whether it succeeded or not.
DropSettleIgnoringFailure(c) ==
    /\ calls[c].pc = "dropping"
    /\ \E ok \in BOOLEAN :
         /\ server' = IF ok /\ ~LastSent(calls[c]).rejected
                      THEN [server EXCEPT ![calls[c].name] = NoDatabase]
                      ELSE server
         /\ calls' = [calls EXCEPT ![c] =
                        [@ EXCEPT !.pc = "creating",
                                  !.sent = Append(@, Statement(pools, adminSql, "CREATE",
                                                               calls[c].name))]]
    /\ UNCHANGED <<env, envLoaded, adminSql, testSql, pools, classifierVars, hookVars, migrationVars, setupVars>>

\* The DROP settles (lines 154-158): on success the database is gone and
\* CREATE DATABASE is sent, on failure the error is logged and re-thrown.
DropSettle(c) ==
    /\ calls[c].pc = "dropping"
    /\ \E ok \in BOOLEAN :
         IF ok /\ ~LastSent(calls[c]).rejected
         THEN /\ server' = [server EXCEPT ![calls[c].name] = NoDatabase]
              /\ calls' = [calls EXCEPT ![c] =
                             [@ EXCEPT !.pc = "creating",
                                       !.sent = Append(@, Statement(pools, adminSql, "CREATE",
                                                                    calls[c].name))]]
         ELSE /\ calls' = [calls EXCEPT ![c] = [Threw(@, "drop") EXCEPT !.cause = "connection"]]
              /\ UNCHANGED server
    /\ UNCHANGED <<env, envLoaded, adminSql, testSql, pools, classifierVars, hookVars, migrationVars, setupVars>>

\* The CREATE settles (lines 158-162, 169-178): the server refuses a name that
\* exists; on success the database exists, empty, and runTestMigrations reads
\* the migration file, takes the test pool and sends the migration.
CreateSettle(c) ==
    /\ calls[c].pc = "creating"
    /\ \E ok \in BOOLEAN, fileRead \in BOOLEAN :
         IF ~ok \/ LastSent(calls[c]).rejected
         THEN /\ calls' = [calls EXCEPT ![c] =
                             [Threw(@, "create") EXCEPT !.cause = "connection"]]
              /\ UNCHANGED <<testSql, pools, server>>
         ELSE IF server[calls[c].name].exists
         THEN /\ calls' = [calls EXCEPT ![c] = [Threw(@, "create") EXCEPT !.cause = "server"]]
              /\ UNCHANGED <<testSql, pools, server>>
         ELSE /\ server' = [server EXCEPT ![calls[c].name] = EmptyDatabase]
              /\ IF fileRead
                 THEN LET test == getTestConnection(pools)
                      IN  /\ testSql' = test.sql
                          /\ pools' = test.pools
                          /\ calls' = [calls EXCEPT ![c] =
                                         [@ EXCEPT !.pc = "migrating",
                                                   !.sent = Append(@,
                                                       Statement(test.pools, test.sql, "MIGRATE",
                                                                 test.pools[test.sql].database))]]
                 ELSE /\ calls' = [calls EXCEPT ![c] =
                                     [Threw(@, "migrate") EXCEPT !.cause = "file"]]
                      /\ UNCHANGED <<testSql, pools>>
    /\ UNCHANGED <<env, envLoaded, adminSql, classifierVars, hookVars, migrationVars, setupVars>>

\* A test calls runTestMigrations directly (lines 169-178): the file is read,
\* the test pool taken and the migration sent.
RunTestMigrationsStart(c) ==
    /\ NextCall(c)
    /\ \E fileRead \in BOOLEAN :
         IF fileRead
         THEN LET test == getTestConnection(pools)
              IN  /\ testSql' = test.sql
                  /\ pools' = test.pools
                  /\ calls' = [calls EXCEPT ![c] =
                                 [@ EXCEPT !.kind = "migrate", !.pc = "migrating",
                                           !.poolsAtCall = Len(pools),
                                           !.sent = Append(@,
                                               Statement(test.pools, test.sql, "MIGRATE",
                                                         test.pools[test.sql].database))]]
         ELSE /\ calls' = [calls EXCEPT ![c] =
                             [Threw([@ EXCEPT !.kind = "migrate", !.poolsAtCall = Len(pools)],
                                    "migrate") EXCEPT !.cause = "file"]]
              /\ UNCHANGED <<testSql, pools>>
    /\ UNCHANGED <<env, envLoaded, adminSql, server, classifierVars, hookVars, migrationVars, setupVars>>

\* The migration settles (lines 178-183, 162-166): it ran on the database the
\* pool is bound to, if that database exists and the connection held.
MigrateSettle(c) ==
    /\ calls[c].pc = "migrating"
    /\ \E ok \in BOOLEAN :
         LET db == LastSent(calls[c]).db
         IN  IF ~ok \/ LastSent(calls[c]).rejected
                \/ db \notin DOMAIN server \/ ~server[db].exists
             THEN /\ calls' = [calls EXCEPT ![c] =
                                 [Threw(@, "migrate") EXCEPT !.cause = "connection"]]
                  /\ UNCHANGED server
             ELSE LET r == ExecMigration(server[db].objects)
                  IN  IF r.ok
                      THEN /\ server' = [server EXCEPT ![db].objects = r.objects]
                           /\ calls' = [calls EXCEPT ![c] = [@ EXCEPT !.pc = "done"]]
                      ELSE /\ calls' = [calls EXCEPT ![c] =
                                          [Threw(@, "migrate") EXCEPT !.cause = "server"]]
                           /\ UNCHANGED server
    /\ UNCHANGED <<env, envLoaded, adminSql, testSql, pools, classifierVars, hookVars, migrationVars, setupVars>>

\* cleanupTestDatabase up to its first await (lines 187-192), or to its end
\* when no pool was created.
CleanupStart(c) ==
    /\ NextCall(c)
    /\ LET rec == [calls[c] EXCEPT !.kind = "cleanup", !.poolsAtCall = Len(pools)]
       IN  IF testSql # NoPool
           THEN /\ pools' = End(pools, testSql)
                /\ calls' = [calls EXCEPT ![c] =
                               [rec EXCEPT !.pc = "endingTest",
                                           !.sent = Append(@, [pool |-> testSql, kind |-> "END"])]]
           ELSE IF adminSql # NoPool
           THEN /\ pools' = End(pools, adminSql)
                /\ calls' = [calls EXCEPT ![c] =
                               [rec EXCEPT !.pc = "endingAdmin",
                                           !.sent = Append(@, [pool |-> adminSql, kind |-> "END"])]]
           ELSE /\ calls' = [calls EXCEPT ![c] = [rec EXCEPT !.pc = "done"]]
                /\ UNCHANGED pools
    /\ UNCHANGED <<env, envLoaded, adminSql, testSql, server, classifierVars, hookVars, migrationVars, setupVars>>

\* testSql.end() settles (lines 189-192, 195-197): on success the admin pool is
\* ended if there is one, on failure the catch block takes over.
EndTestSettle(c) ==
    /\ calls[c].pc = "endingTest"
    /\ \E ok \in BOOLEAN :
         IF ~ok
         THEN /\ calls' = [calls EXCEPT ![c] = cleanupCatch(@)]
              /\ UNCHANGED pools
         ELSE IF adminSql # NoPool
         THEN /\ pools' = End(pools, adminSql)
              /\ calls' = [calls EXCEPT ![c] =
                             [@ EXCEPT !.pc = "endingAdmin",
                                       !.sent = Append(@, [pool |-> adminSql, kind |-> "END"])]]
         ELSE /\ calls' = [calls EXCEPT ![c] = [@ EXCEPT !.pc = "done"]]
              /\ UNCHANGED pools
    /\ UNCHANGED <<env, envLoaded, adminSql, testSql, server, classifierVars, hookVars, migrationVars, setupVars>>

\* adminSql.end() settles (lines 192-197).
EndAdminSettle(c) ==
    /\ calls[c].pc = "endingAdmin"
    /\ \E ok \in BOOLEAN :
         calls' = [calls EXCEPT ![c] = IF ok THEN [@ EXCEPT !.pc = "done"]
                                              ELSE cleanupCatch(@)]
    /\ UNCHANGED <<env, envLoaded, adminSql, testSql, pools, server, classifierVars, hookVars, migrationVars, setupVars>>

\* -------------------------------------------------------------- lib/db.ts
\* File names of the migrations directory, as the sequences of their characters.
BetterAuthTablesSql ==
    <<"0", "0", "1", "_", "b", "e", "t", "t", "e", "r", "_", "a", "u", "t", "h", "_",
      "t", "a", "b", "l", "e", "s", ".", "s", "q", "l">>

SessionsSql == <<"0", "0", "2", "_", "s", ".", "s", "q", "l">>

TenSql == <<"1", "0", "_", "t", ".", "s", "q", "l">>

UpperSql == <<"B", ".", "s", "q", "l">>

LowerSql == <<"a", ".", "s", "q", "l">>

BackupFile == <<"0", "0", "3", ".", "s", "q", "l", ".", "b", "a", "k">>

FileNames == {BetterAuthTablesSql, SessionsSql, TenSql, UpperSql, LowerSql, BackupFile}

\* The migrations directory: missing, or holding some of the files.
Directories ==
    {[exists |-> FALSE, files |-> {}]}
        \cup {[exists |-> TRUE, files |-> fs] : fs \in SUBSET FileNames}

\* String.prototype.charCodeAt, for the characters of the file names.
charCodeAt ==
    "." :> 46 @@ "0" :> 48 @@ "1" :> 49 @@ "2" :> 50 @@ "3" :> 51 @@ "B" :> 66 @@
    "_" :> 95 @@ "a" :> 97 @@ "b" :> 98 @@ "e" :> 101 @@ "h" :> 104 @@ "k" :> 107 @@
    "l" :> 108 @@ "q" :> 113 @@ "r" :> 114 @@ "s" :> 115 @@ "t" :> 116 @@ "u" :> 117

\* String.prototype.endsWith
endsWith(s, suffix) ==
    Len(s) >= Len(suffix) /\ SubSeq(s, Len(s) - Len(suffix) + 1, Len(s)) = suffix

\* a < b on JavaScript strings: the first differing code unit decides, and a
\* proper prefix comes first.
RECURSIVE StringLess(_, _)
StringLess(a, b) ==
    IF b = <<>> THEN FALSE
    ELSE IF a = <<>> THEN TRUE
    ELSE IF Head(a) = Head(b) THEN StringLess(Tail(a), Tail(b))
    ELSE charCodeAt[Head(a)] < charCodeAt[Head(b)]

\* The listing in descending order.
RECURSIVE sortDescending(_)
sortDescending(files) ==
    IF files = {} THEN <<>>
    ELSE LET last == CHOOSE f \in files : \A g \in files \ {f} : StringLess(g, f)
         IN  <<last>> \o sortDescending(files \ {last})

\* Array.prototype.sort without a comparator, on the listing of a directory
\* (distinct names, in whatever order readdirSync gave them).
RECURSIVE sort(_)
sort(files) ==
    IF files = {} THEN <<>>
    ELSE LET first == CHOOSE f \in files : \A g \in files \ {f} : StringLess(f, g)
         IN  <<first>> \o sort(files \ {first})

\* The .sql files of the listing in descending order.
migrationFilesDescending(dir) ==
    sortDescending({file \in dir.files : endsWith(file, <<".", "s", "q", "l">>)})

\* readdirSync(migrationsDir).filter(file => file.endsWith('.sql')).sort()
migrationFiles(dir) ==
    sort({file \in dir.files : endsWith(file, <<".", "s", "q", "l">>)})

\* A runMigrations call: where it is, its local migrationFiles, the files whose
\* text it has handed to sql.unsafe, and how many of those calls completed.
NewRun == [pc |-> "new", files |-> <<>>, executed |-> <<>>, completed |-> 0]

InitMigrations ==
    /\ migrationsDir \in Directories
    /\ run = NewRun

\* runMigrations never called, for the specifications of the other components.
MigrationsIdle ==
    /\ migrationsDir = [exists |-> FALSE, files |-> {}]
    /\ run = NewRun

\* One turn of the for loop up to its await (lines 31-36): the file is read and
\* its text sent, or readFileSync throws and the catch block re-throws.
LoopTurn(rec, fileRead) ==
    IF fileRead
    THEN [rec EXCEPT !.pc = "running",
                     !.executed = Append(@, rec.files[Len(rec.executed) + 1])]
    ELSE [rec EXCEPT !.pc = "threw"]

\* runMigrations up to its first await (lines 15-36), or to its return when
\* there is no .sql file, or to its throw when the directory cannot be listed.
RunMigrationsStart ==
    /\ run.pc = "new"
    /\ IF ~migrationsDir.exists
       THEN run' = [run EXCEPT !.pc = "threw"]
       ELSE LET rec == [run EXCEPT !.files = migrationFiles(migrationsDir)]
            IN  IF Len(rec.files) = 0
                THEN run' = [rec EXCEPT !.pc = "done"]
                ELSE \E fileRead \in BOOLEAN : run' = LoopTurn(rec, fileRead)
    /\ UNCHANGED <<migrationsDir, classifierVars, hookVars, dbVars, setupVars>>

\* sql.unsafe(migration) settles (lines 36-44): on success the loop goes on to
\* the next file or the call returns; on failure the error is logged and
\* re-thrown.
FileSettle ==
    /\ run.pc = "running"
    /\ \E ok \in BOOLEAN, fileRead \in BOOLEAN :
         IF ~ok
         THEN run' = [run EXCEPT !.pc = "threw"]
         ELSE LET rec == [run EXCEPT !.completed = @ + 1]
              IN  IF rec.completed = Len(rec.files)
                  THEN run' = [rec EXCEPT !.pc = "done"]
                  ELSE run' = LoopTurn(rec, fileRead)
    /\ UNCHANGED <<migrationsDir, classifierVars, hookVars, dbVars, setupVars>>

\* ---------------------------------------------------------- test-setup.ts
MaxSetupCalls == 3

NoPromise == 0

\* Nobody has called setupTestDatabase.
SetupIdle ==
    /\ dbSetupPromise = NoPromise
    /\ setupCallers = <<>>

\* setupTestDatabase that starts a run for every caller.
setupTestDatabaseUnmemoized(c) ==
    /\ recreateTestDatabase(c)
    /\ dbSetupPromise' = c
    /\ setupCallers' = Append(setupCallers, [promise |-> c, outcome |-> "pending"])

\* setupTestDatabase (lines 48-53), called where recreateTestDatabase would
\* get the number c: the first caller starts recreateTestDatabase and keeps
\* its promise, every caller gets a promise that follows the one kept.
setupTestDatabase(c) ==
    IF dbSetupPromise = NoPromise
    THEN /\ recreateTestDatabase(c)
         /\ dbSetupPromise' = c
         /\ setupCallers' = Append(setupCallers, [promise |-> c, outcome |-> "pending"])
    ELSE /\ setupCallers' = Append(setupCallers,
                                   [promise |-> dbSetupPromise, outcome |-> "pending"])
         /\ UNCHANGED <<dbSetupPromise, dbVars, classifierVars, hookVars, migrationVars>>

\* A beforeAll hook (or any caller) calls setupTestDatabase.
SetupTestDatabase ==
    /\ Len(setupCallers) < MaxSetupCalls
    /\ \E c \in CallIds : NextCall(c) /\ setupTestDatabase(c)

\* The promise a caller awaits settles as the run it follows has settled.
SetupCallerSettles ==
    \E i \in 1..Len(setupCallers) :
        /\ setupCallers[i].outcome = "pending"
        /\ calls[setupCallers[i].promise].pc \in {"done", "threw"}
        /\ setupCallers' =
              [setupCallers EXCEPT ![i].outcome =
                  IF calls[setupCallers[i].promise].pc = "done" THEN "resolved"
                                                               ELSE "rejected"]
        /\ UNCHANGED <<dbSetupPromise, dbVars, classifierVars, hookVars, migrationVars>>

\* -------------------------------------------------------- specifications
NextClassifier ==
    \/ CallIsAuthError
    \/ CallIsAuthSuccess
    \/ CallIsErrorCode
    \/ CallGetUserFriendlyErrorMessage
    \/ CallSignInHandler
    \/ CallSignUpHandler
    \/ CallSocialHandler

InitClassifierSpec == InitClassifier /\ HookIdle /\ DbIdle /\ MigrationsIdle /\ SetupIdle

SpecClassifier == InitClassifierSpec /\ [][NextClassifier]_vars

NextHook ==
    \/ \E o \in OpIds : SignInWithEmailStart(o)
    \/ \E o \in OpIds : SignInWithEmailSettle(o)
    \/ \E o \in OpIds : SignInWithSocialStart(o)
    \/ \E o \in OpIds : SignInWithSocialSettle(o)
    \/ clearError
    \/ reset

InitHookSpec == InitHook /\ ClassifierIdle /\ DbIdle /\ MigrationsIdle /\ SetupIdle

SpecHook == InitHookSpec /\ [][NextHook]_vars

NextDb ==
    \/ SetEnv
    \/ \E c \in CallIds : RecreateStart(c)
    \/ \E c \in CallIds : DropSettle(c)
    \/ \E c \in CallIds : CreateSettle(c)
    \/ \E c \in CallIds : MigrateSettle(c)
    \/ CallTestSql
    \/ AfterAllEndTestPool
    \/ \E c \in CallIds : RunTestMigrationsStart(c)
    \/ \E c \in CallIds : CleanupStart(c)
    \/ \E c \in CallIds : EndTestSettle(c)
    \/ \E c \in CallIds : EndAdminSettle(c)

InitDbSpec == InitDb /\ ClassifierIdle /\ HookIdle /\ MigrationsIdle /\ SetupIdle

SpecDb == InitDbSpec /\ [][NextDb]_vars

NextMigrations ==
    \/ RunMigrationsStart
    \/ FileSettle

InitMigrationsSpec == InitMigrations /\ ClassifierIdle /\ HookIdle /\ DbIdle /\ SetupIdle

SpecMigrations == InitMigrationsSpec /\ [][NextMigrations]_vars

NextSetup ==
    \/ SetupTestDatabase
    \/ SetupCallerSettles
    \/ SetEnv
    \/ \E c \in CallIds : DropSettle(c)
    \/ \E c \in CallIds : CreateSettle(c)
    \/ \E c \in CallIds : MigrateSettle(c)

InitSetupSpec == InitDb /\ SetupIdle /\ ClassifierIdle /\ HookIdle /\ MigrationsIdle

SpecSetup == InitSetupSpec /\ [][NextSetup]_vars

\* ------------------------------------------------------------ properties
Settled == {"resolved", "rejected"}

HasTestMarker(name) == Includes(name, <<"_", "t", "e", "s", "t">>)

Destructive == {"DROP", "CREATE"}

\* C1: recreateTestDatabase never sends DROP DATABASE or CREATE DATABASE for a
\* name without the substring `_test`: a call that finds such a name in the
\* environment throws at once, sends nothing then or later, creates no pool
\* and leaves the memoized adminSql / testSql as they were.
C1_NoDestructiveStatementWithoutTestMarker ==
    /\ [](\A c \in CallIds :
            /\ \A i \in 1..Len(calls[c].sent) :
                  calls[c].sent[i].kind \in Destructive => HasTestMarker(calls[c].sent[i].db)
            /\ calls[c].failedAt = "guard" => calls[c].sent = <<>>)
    /\ [][\A c \in CallIds :
            (/\ calls[c].pc = "new" /\ calls'[c].kind = "recreate"
             /\ env.ok /\ ~HasTestMarker(Slice1(env.pathname)))
            => /\ calls'[c].pc = "threw"
               /\ calls'[c].sent = <<>>
               /\ pools' = pools /\ adminSql' = adminSql /\ testSql' = testSql]_vars

\* A call threw at the guard for the database `memento`, with a pool that an
\* earlier call had memoized still in place.
C1_Witness ==
    \E c \in CallIds :
        /\ calls[c].failedAt = "guard" /\ calls[c].name = Memento
        /\ adminSql # NoPool

EmailStarts(o) ==
    ops[o].pc = "new" /\ ops'[o].pc = "awaiting" /\ ops'[o].kind = "email"

EmailSettles(o) ==
    ops[o].kind = "email" /\ ops[o].pc = "awaiting" /\ ops'[o].pc \in Settled

SocialSettles(o) ==
    ops[o].kind = "social" /\ ops[o].pc = "awaiting" /\ ops'[o].pc \in Settled

ClientSucceeded(op) == op.outcome.kind = "result" /\ isAuthSuccess(op.outcome.result)

ClientFailed(op) == op.outcome.kind = "result" /\ isAuthError(op.outcome.result)

ClientThrew(op) == op.outcome.kind = "throw"

\* C2: invoking signInWithEmail puts loadingState at `email`, and the step in
\* which the operation completes (the client returned success, returned a
\* failure, or threw; the promise resolved or rejected) leaves it `idle`.
C2_EmailAlwaysResolvesToIdle ==
    [][\A o \in OpIds :
         /\ EmailStarts(o) => loadingState' = "email"
         /\ EmailSettles(o) => loadingState' = "idle"]_vars

\* An email sign-in completed on a success result, and the hook is idle.
C2_Witness ==
    \E o \in OpIds :
        /\ ops[o].kind = "email" /\ ops[o].pc = "resolved" /\ ClientSucceeded(ops[o])
        /\ loadingState = "idle"

\* C3: a signInWithSocial whose client call yields a success result does not
\* touch loadingState (no forced reset) and invokes onSuccess exactly once; one
\* whose client call yields a failure result or throws sets it to `idle`.
C3_SocialSuccessLeavesLoadingState ==
    [][\A o \in OpIds :
         SocialSettles(o) =>
            /\ ClientSucceeded(ops'[o]) =>
                  /\ loadingState' = loadingState
                  /\ hasOnSuccess => ops'[o].nSuccess = 1
            /\ (ClientFailed(ops'[o]) \/ ClientThrew(ops'[o])) => loadingState' = "idle"]_vars

\* C4: per completed operation exactly one of onSuccess / onError has been
\* called, exactly once (both callbacks being supplied).
C4_CallbacksFireExactlyOnce ==
    \A o \in OpIds :
        (ops[o].pc \in Settled /\ hasOnSuccess /\ hasOnError)
            => ops[o].nSuccess + ops[o].nError = 1

\* C5: the promise of signInWithEmail / signInWithSocial never rejects.
C5_PromiseNeverRejects == \A o \in OpIds : ops[o].pc # "rejected"

FriendlyCalls == {"getUserFriendlyErrorMessage", "signIn", "signUp", "social"}

CanonicalMatches(message) == {c \in DOMAIN BASE_ERROR_CODES : message = BASE_ERROR_CODES[c]}

C7_IsErrorCodeFallbackOnlyWithoutCode ==
    call.op = "isErrorCode" =>
        call.ret = (\/ input.error.code = call.code
                    \/ /\ input.error.code = Undefined
                       /\ input.error.message = BASE_ERROR_CODES[call.code])

\* C8: the two tables have the same keys, and every friendly message is
\* non-empty and differs from its code's canonical message; so does the
\* message getUserFriendlyErrorMessage returns for a code of the enumeration.
C8_FriendlyMessagesDefinedAndDistinct ==
    /\ DOMAIN USER_FRIENDLY_ERROR_MESSAGES = DOMAIN BASE_ERROR_CODES
    /\ \A c \in DOMAIN BASE_ERROR_CODES :
          /\ Lookup(USER_FRIENDLY_ERROR_MESSAGES, c) \notin {Undefined, ""}
          /\ Lookup(USER_FRIENDLY_ERROR_MESSAGES, c) # BASE_ERROR_CODES[c]
    /\ (call.op = "getUserFriendlyErrorMessage" /\ input.error.code \in DOMAIN BASE_ERROR_CODES)
          => call.ret \notin {"", BASE_ERROR_CODES[input.error.code]}

\* The friendly text of ACCOUNT_NOT_FOUND, one full stop away from the
\* canonical one, was returned.
C8_Witness ==
    /\ call.op = "getUserFriendlyErrorMessage"
    /\ input.error # NullObj
    /\ input.error.code = "ACCOUNT_NOT_FOUND"
    /\ call.ret = "Account not found."

\* C9: isAuthError is true iff error is non-null, isAuthSuccess iff data is
\* non-null and error is null; no result satisfies both, and the result with
\* data and error both null satisfies neither.
C9_TypeGuards ==
    /\ call.op = "isAuthError" => call.ret = (input.error # NullObj)
    /\ call.op = "isAuthSuccess" =>
          call.ret = (input.data # NullObj /\ input.error = NullObj)
    /\ ~(isAuthError(input) /\ isAuthSuccess(input))
    /\ (input.data = NullObj /\ input.error = NullObj)
          => ~isAuthError(input) /\ ~isAuthSuccess(input)

\* isAuthSuccess was asked about the result with neither data nor error.
C9_Witness ==
    /\ input = [data |-> NullObj, error |-> NullObj]
    /\ call.op = "isAuthSuccess"
    /\ call.ret = FALSE

Matches(e, code) == e.code = code \/ e.message = BASE_ERROR_CODES[code]

\* C11: each handler returns the bespoke phrase of the first of its priority
\* codes, in the listed order, that the error matches, and exactly what
\* getUserFriendlyErrorMessage returns when the error matches none of them.
C11_HandlersCheckPriorityCodesInOrder ==
    LET e == input.error
        friendly == getUserFriendlyErrorMessage(input.error)
    IN /\ call.op = "signIn" =>
            call.ret =
               CASE Matches(e, "INVALID_EMAIL_OR_PASSWORD") ->
                      "Invalid email or password. Please check your credentials and try again."
                 [] ~Matches(e, "INVALID_EMAIL_OR_PASSWORD")
                    /\ Matches(e, "EMAIL_NOT_VERIFIED") ->
                      "Please check your email and click the verification link before signing in."
                 [] ~Matches(e, "INVALID_EMAIL_OR_PASSWORD")
                    /\ ~Matches(e, "EMAIL_NOT_VERIFIED")
                    /\ Matches(e, "USER_NOT_FOUND") ->
                      "No account found with this email. Please check the email address or sign up."
                 [] OTHER -> friendly
       /\ call.op = "signUp" =>
            call.ret =
               CASE Matches(e, "USER_ALREADY_EXISTS") ->
                      "An account with this email already exists. Please sign in instead."
                 [] ~Matches(e, "USER_ALREADY_EXISTS") /\ Matches(e, "INVALID_EMAIL") ->
                      "Please enter a valid email address."
                 [] OTHER -> friendly
       /\ call.op = "social" =>
            call.ret =
               CASE Matches(e, "SOCIAL_ACCOUNT_ALREADY_LINKED") ->
                      "This social account is already linked to another user."
                 [] ~Matches(e, "SOCIAL_ACCOUNT_ALREADY_LINKED")
                    /\ Matches(e, "PROVIDER_NOT_FOUND") ->
                      "Social sign-in is temporarily unavailable. Please try again later."
                 [] ~Matches(e, "SOCIAL_ACCOUNT_ALREADY_LINKED")
                    /\ ~Matches(e, "PROVIDER_NOT_FOUND")
                    /\ Matches(e, "FAILED_TO_GET_USER_INFO") ->
                      "Unable to retrieve information from your social account. Please try again."
                 [] OTHER -> friendly

\* signIn got the code USER_NOT_FOUND together with the canonical message of
\* INVALID_EMAIL_OR_PASSWORD: both match, and the one listed first won.
C11_Witness ==
    /\ call.op = "signIn"
    /\ input.error # NullObj
    /\ input.error = [code |-> "USER_NOT_FOUND", message |-> "Invalid email or password"]
    /\ call.ret = "Invalid email or password. Please check your credentials and try again."

\* C12: a signInWithEmail whose client call returned a failure result ends
\* with loadingState idle and the error string AUTH_ERROR_HANDLERS.signIn
\* gives for result.error; onError has been invoked exactly once, with that
\* same string, and onSuccess not at all.
C12_EmailFailureReportsSignInMessageOnce ==
    [][\A o \in OpIds :
         (EmailSettles(o) /\ ClientFailed(ops'[o])) =>
            LET message == signIn(ops'[o].outcome.result.error)
            IN  /\ loadingState' = "idle"
                /\ error' = message
                /\ hasOnError => ops'[o].onErrorArgs = <<message>>
                /\ ops'[o].nSuccess = 0]_vars

\* C13: when the client call itself throws, the error string is the fixed
\* generic message of the path (email, or social with the provider's name),
\* loadingState is idle, and onError has received that same message, once.
C13_ClientThrowGivesGenericMessage ==
    [][\A o \in OpIds :
         /\ (EmailSettles(o) /\ ClientThrew(ops'[o])) =>
               /\ error' = "An unexpected error occurred. Please check your connection and try again."
               /\ loadingState' = "idle"
               /\ hasOnError => ops'[o].onErrorArgs = <<error'>>
               /\ ops'[o].nSuccess = 0
         /\ (SocialSettles(o) /\ ClientThrew(ops'[o])) =>
               /\ ops'[o].provider = "github" =>
                     error' = "Unable to connect to github. Please check your connection and try again."
               /\ ops'[o].provider = "google" =>
                     error' = "Unable to connect to google. Please check your connection and try again."
               /\ error' # NullStr
               /\ loadingState' = "idle"
               /\ hasOnError => ops'[o].onErrorArgs = <<error'>>
               /\ ops'[o].nSuccess = 0]_vars

\* The client call of a social sign-in with google threw: the hook is idle,
\* shows the google text, and onError received it.
C13_Witness ==
    \E o \in OpIds :
        /\ ops[o].kind = "social" /\ ops[o].provider = "google"
        /\ ops[o].pc \in Settled /\ ClientThrew(ops[o])
        /\ hasOnError
        /\ ops[o].onErrorArgs =
              <<"Unable to connect to google. Please check your connection and try again.">>
        /\ error = "Unable to connect to google. Please check your connection and try again."
        /\ loadingState = "idle"

Cleanups == {c \in CallIds : calls[c].kind = "cleanup"}

\* C14: cleanupTestDatabase never throws or rejects: a pool whose end() fails
\* leaves the call returned, with the error logged and not passed on.
C14_CleanupNeverThrows ==
    /\ [](\A c \in Cleanups : calls[c].pc # "threw")
    /\ [][\A c \in CallIds :
            (calls[c].pc \in {"endingTest", "endingAdmin"} /\ calls'[c] # calls[c])
               => /\ calls'[c].pc \in {"endingAdmin", "done"}
                  /\ calls'[c].failedAt = "end" => calls'[c].pc = "done"]_vars

\* A cleanupTestDatabase call returned although closing the admin pool failed.
C14_Witness ==
    \E c \in Cleanups :
        /\ calls[c].pc = "done" /\ calls[c].failedAt = "end"
        /\ Len(calls[c].sent) > 0
        /\ pools[LastSent(calls[c]).pool].role = "admin"

\* C15: when cleanupTestDatabase returns, end() has been invoked on every
\* pool that existed when it was called, also when closing one of them failed.
C15_CleanupEndsEveryPool ==
    [][\A c \in CallIds :
         (calls'[c].kind = "cleanup" /\ calls[c].pc # "done" /\ calls'[c].pc = "done")
            => \A p \in 1..calls'[c].poolsAtCall : pools'[p].ended]_vars

PoolsOf(role) == {p \in 1..Len(pools) : pools[p].role = role}

\* C16: no pool exists before a getter is called; at most one pool per role
\* is ever created; the memoized pool of a role, once set, is never replaced,
\* and every statement went out on the memoized pool of its role.
C16_PoolsLazyAndMemoized ==
    /\ [](/\ Cardinality(PoolsOf("admin")) <= 1
          /\ Cardinality(PoolsOf("test")) <= 1
          /\ PoolsOf("admin") = IF adminSql = NoPool THEN {} ELSE {adminSql}
          /\ PoolsOf("test") = IF testSql = NoPool THEN {} ELSE {testSql}
          /\ \A c \in CallIds : \A i \in 1..Len(calls[c].sent) :
                /\ calls[c].sent[i].kind \in {"DROP", "CREATE"}
                      => calls[c].sent[i].pool = adminSql
                /\ calls[c].sent[i].kind = "MIGRATE" => calls[c].sent[i].pool = testSql)
    /\ [][/\ adminSql # NoPool => adminSql' = adminSql
          /\ testSql # NoPool => testSql' = testSql
          /\ Len(pools') > Len(pools)
                => /\ Len(pools') = Len(pools) + 1
                   /\ \/ adminSql = NoPool /\ adminSql' = Len(pools')
                      \/ testSql = NoPool /\ testSql' = Len(pools')]_vars

\* Two runTestMigrations calls are in flight at once, and both sent the
\* migration on the one test pool.
C16_Witness ==
    \E c, d \in CallIds :
        /\ c # d
        /\ calls[c].pc = "migrating" /\ calls[d].pc = "migrating"
        /\ calls[c].kind = "migrate" /\ calls[d].kind = "migrate"
        /\ LastSent(calls[c]).pool = testSql /\ LastSent(calls[d]).pool = testSql
        /\ Cardinality(PoolsOf("test")) = 1

\* The database has every table and index of the migration.
Migrated(db) ==
    /\ db \in DOMAIN server
    /\ server[db].exists
    /\ {"user", "session", "account", "verification",
        "idx_session_userId", "idx_session_token", "idx_account_userId",
        "idx_account_providerId", "idx_verification_identifier"} \subseteq server[db].objects

MigrationSettles(c) ==
    calls[c].pc = "migrating" /\ calls'[c].pc \in {"done", "threw"}

\* C17: a migration run that reaches an already migrated database raises no
\* error of the server's and leaves every database as it was: the same
\* tables and indexes, the same rows.
C17_MigrationIdempotent ==
    [][\A c \in CallIds :
         (MigrationSettles(c) /\ Migrated(LastSent(calls[c]).db))
            => /\ server' = server
               /\ calls'[c].pc = "threw" => calls'[c].cause = "connection"]_vars

\* recreateTestDatabase migrated memento_test, and a runTestMigrations call
\* after it ran to its end on the same database.
C17_Witness ==
    \E c, d \in CallIds :
        /\ c < d
        /\ calls[c].kind = "recreate" /\ calls[c].pc = "done"
        /\ calls[d].kind = "migrate" /\ calls[d].pc = "done"
        /\ LastSent(calls[c]).db = MementoTest /\ LastSent(calls[d]).db = MementoTest
        /\ server[MementoTest].objects = Tables \cup Indexes

Kinds(rec) == [i \in 1..Len(rec.sent) |-> rec.sent[i].kind]

IsPrefix(s, t) == Len(s) <= Len(t) /\ s = SubSeq(t, 1, Len(s))

\* C19: a recreateTestDatabase call sends DROP DATABASE, CREATE DATABASE and
\* the migration in that order, each one only in the step in which the one
\* before it succeeded (the database gone, then present and empty); a step
\* that fails throws, and a call that threw sends nothing more.
C19_RecreateStepsStrictlySequential ==
    /\ [](\A c \in CallIds :
            calls[c].kind = "recreate" =>
               /\ IsPrefix(Kinds(calls[c]), <<"DROP", "CREATE", "MIGRATE">>)
               /\ calls[c].failedAt \in {"url", "guard"} => Kinds(calls[c]) = <<>>
               /\ calls[c].failedAt = "drop" => Kinds(calls[c]) = <<"DROP">>
               /\ calls[c].failedAt = "create" => Kinds(calls[c]) = <<"DROP", "CREATE">>
               /\ calls[c].failedAt # "" => calls[c].pc = "threw")
    /\ [][\A c \in CallIds :
            calls[c].kind = "recreate" =>
               /\ calls[c].pc = "threw" => calls'[c] = calls[c]
               /\ Len(calls'[c].sent) > Len(calls[c].sent) =>
                     /\ Len(calls'[c].sent) = Len(calls[c].sent) + 1
                     /\ calls[c].pc = "dropping" =>
                           /\ ~LastSent(calls[c]).rejected
                           /\ server'[calls[c].name] = [exists |-> FALSE, objects |-> {},
                                                        rows |-> FALSE]
                     /\ calls[c].pc = "creating" =>
                           /\ ~LastSent(calls[c]).rejected
                           /\ ~server[calls[c].name].exists
                           /\ server'[calls[c].name] = [exists |-> TRUE, objects |-> {},
                                                        rows |-> FALSE]
               /\ calls'[c].pc = "threw" =>
                     /\ calls'[c].sent = calls[c].sent
                     /\ <<calls[c].pc, calls'[c].failedAt>>
                           \in {<<"dropping", "drop">>, <<"creating", "create">>,
                                <<"migrating", "migrate">>}
                           => server' = server]_vars

\* A call whose DROP DATABASE failed threw without sending CREATE DATABASE,
\* and memento_test is as it was.
C19_Witness ==
    \E c \in CallIds :
        /\ calls[c].kind = "recreate" /\ calls[c].pc = "threw"
        /\ calls[c].failedAt = "drop"
        /\ Kinds(calls[c]) = <<"DROP">>
        /\ calls[c].name = MementoTest
        /\ server[MementoTest].rows

\* Lexicographic order of two file names by character code: at the first
\* position where they differ the smaller code comes first, and a name that
\* is the beginning of another comes first.
LexBefore(a, b) ==
    \E k \in 0..Len(a) :
        /\ k <= Len(b)
        /\ SubSeq(a, 1, k) = SubSeq(b, 1, k)
        /\ \/ k = Len(a) /\ k < Len(b)
           \/ k < Len(a) /\ k < Len(b) /\ charCodeAt[a[k + 1]] < charCodeAt[b[k + 1]]

SqlFiles ==
    {f \in migrationsDir.files :
        Len(f) >= 4 /\ <<f[Len(f) - 3], f[Len(f) - 2], f[Len(f) - 1], f[Len(f)]>>
                          = <<".", "s", "q", "l">>}

Executed == {run.executed[i] : i \in 1..Len(run.executed)}

\* C20: runMigrations executes the .sql files of the directory, and only
\* those, in ascending lexicographic order without skipping one, and starts a
\* file only when all before it have completed; when a file fails the call
\* throws and executes nothing more; it returns only when every file has
\* completed, and with no .sql file it returns having executed nothing.
C20_MigrationsRunInOrderOneAtATime ==
    /\ [](/\ Executed \subseteq SqlFiles
          /\ \A i, j \in 1..Len(run.executed) :
                i < j => LexBefore(run.executed[i], run.executed[j])
          /\ \A f \in SqlFiles : \A i \in 1..Len(run.executed) :
                LexBefore(f, run.executed[i]) => f \in Executed
          /\ run.completed <= Len(run.executed)
          /\ Len(run.executed) <= run.completed + 1
          /\ run.pc = "running" => Len(run.executed) = run.completed + 1
          /\ run.pc = "done" => Executed = SqlFiles /\ run.completed = Len(run.executed)
          /\ (run.pc # "new" /\ migrationsDir.exists /\ SqlFiles = {})
                => run.pc = "done" /\ run.executed = <<>>)
    /\ [][/\ run.pc \in {"threw", "done"} => run' = run
          /\ run'.pc = "threw" => run'.executed = run.executed
          /\ Len(run'.executed) > Len(run.executed)
                => /\ Len(run'.executed) = Len(run.executed) + 1
                   /\ run'.completed = Len(run.executed)]_vars

\* Of the five .sql files of the directory the third, 10_t.sql, failed: the
\* call threw, and B.sql and a.sql, which sort after it, were never executed.
C20_Witness ==
    /\ migrationsDir.files = FileNames
    /\ run.pc = "threw"
    /\ run.executed = <<BetterAuthTablesSql, SessionsSql, TenSql>>
    /\ run.completed = 2

\* C21: the migration a recreateTestDatabase call sends goes to the database
\* that call has just created, the one process.env.POSTGRES_URL named when
\* the call began, also when the test pool was established before.
C21_MigrationGoesToCreatedDatabase ==
    \A c \in CallIds :
        calls[c].kind = "recreate" =>
            \A i \in 1..Len(calls[c].sent) :
                calls[c].sent[i].kind = "MIGRATE" => calls[c].sent[i].db = calls[c].name

\* The pools on which a returned cleanupTestDatabase call has called end().
TornDown ==
    {p \in 1..Len(pools) :
        \E c \in CallIds :
            /\ calls[c].kind = "cleanup" /\ calls[c].pc = "done"
            /\ \E i \in 1..Len(calls[c].sent) : calls[c].sent[i].pool = p}

\* C22: once cleanupTestDatabase has torn a pool down, no statement is sent
\* on it: a later recreateTestDatabase or runTestMigrations call works on a
\* newly created, open pool.
C22_NoEndedPoolUsedAfterCleanup ==
    [][\A c \in CallIds :
         (Len(calls'[c].sent) > Len(calls[c].sent) /\ LastSent(calls'[c]).kind # "END")
            => LastSent(calls'[c]).pool \notin TornDown]_vars

SocialStarts(o) ==
    ops[o].pc = "new" /\ ops'[o].pc = "awaiting" /\ ops'[o].kind = "social"

\* C23: right after signInWithEmail or signInWithSocial is invoked, before
\* its client call resolves, loadingState is `email` respectively `social`
\* and the error string is null, whatever it was before.
C23_StartClearsError ==
    [][\A o \in OpIds :
         /\ EmailStarts(o) => loadingState' = "email" /\ error' = NullStr
         /\ SocialStarts(o) => loadingState' = "social" /\ error' = NullStr]_vars

\* An email sign-in failed and left its message; a second one was invoked
\* and, still awaiting its client call, shows `email` and no error.
C23_Witness ==
    \E o, p \in OpIds :
        /\ o < p
        /\ ops[o].pc \in Settled /\ ClientFailed(ops[o]) /\ ops[o].onErrorArgs # <<>>
        /\ ops[p].kind = "email" /\ ops[p].pc = "awaiting"
        /\ loadingState = "email" /\ error = NullStr


\* C24: setupTestDatabase sets the database up once: however many callers
\* there are, at most one recreateTestDatabase run is ever started (also after
\* that run has failed), every caller holds the promise of that run, and a
\* caller whose promise has settled got that run's outcome.
SetupRuns == {c \in CallIds : calls[c].kind = "recreate"}

C24_SetupRunsRecreateOnce ==
    /\ Cardinality(SetupRuns) <= 1
    /\ \A i \in 1..Len(setupCallers) :
          /\ setupCallers[i].promise = dbSetupPromise
          /\ setupCallers[i].promise \in SetupRuns
          /\ setupCallers[i].outcome = "resolved" => calls[dbSetupPromise].pc = "done"
          /\ setupCallers[i].outcome = "rejected" => calls[dbSetupPromise].pc = "threw"

\* Three callers, all rejected by the one run, which failed.
C24_Witness ==
    /\ Len(setupCallers) = MaxSetupCalls
    /\ \A i \in 1..Len(setupCallers) : setupCallers[i].outcome = "rejected"
    /\ Cardinality(SetupRuns) = 1


\* C25: recreateTestDatabase sends DROP DATABASE / CREATE DATABASE only for a
\* name that ends in `_test`; for every other name, one with `_test` in the
\* middle included, the call has thrown at the guard with nothing sent.
HasTestSuffix(name) == endsWith(name, <<"_", "t", "e", "s", "t">>)

C25_NoDestructiveStatementWithoutTestSuffix ==
    \A c \in CallIds :
        (calls[c].kind = "recreate" /\ calls[c].name # <<>> /\ ~HasTestSuffix(calls[c].name))
            => /\ calls[c].failedAt = "guard"
               /\ \A i \in 1..Len(calls[c].sent) : calls[c].sent[i].kind \notin Destructive


\* C26: isLoading is true (loadingState is not `idle`) whenever an operation
\* is in flight, that is, invoked with its client call not yet resolved; a
\* second operation invoked while the first is in flight included.
InFlight == {o \in OpIds : ops[o].pc = "awaiting"}

isLoading == loadingState # "idle"

C26_LoadingWhileAnyOperationInFlight == InFlight # {} => isLoading


\* C27: the error string belongs to the most recently started operation: it
\* is null from that operation's start until that operation settles, and the
\* settling of an operation started earlier changes neither the error nor the
\* loading state while a newer operation exists.
Started == {o \in OpIds : ops[o].pc # "new"}

MostRecent == CHOOSE o \in Started : \A p \in Started : p <= o

C27_ErrorBelongsToMostRecentOperation ==
    /\ [](Started # {} /\ ops[MostRecent].pc = "awaiting" => error = NullStr)
    /\ [][\A o \in OpIds :
            (ops[o].pc = "awaiting" /\ ops'[o].pc \in Settled /\ o # MostRecent)
                => error' = error /\ loadingState' = loadingState]_vars


\* C28: onSuccess is invoked only for a result that isAuthSuccess classifies
\* as a success, hence never with null data: the result whose data and error
\* are both null does not reach it.
C28_OnSuccessOnlyForSuccessResults ==
    \A o \in OpIds :
        ops[o].nSuccess > 0
            => /\ ClientSucceeded(ops[o])
               /\ ops[o].outcome.result.data # NullObj


\* C29: loadingState is always one of `idle`, `email`, `social` (the declared
\* `submitting` is never reached); clearError leaves loadingState as it was,
\* and reset leaves loadingState `idle` and the error null.
C29_LoadingStateValues ==
    /\ [](loadingState \in {"idle", "email", "social"} /\ loadingState # "submitting")
    /\ [][/\ clearError => loadingState' = loadingState /\ error' = NullStr
          /\ reset => loadingState' = "idle" /\ error' = NullStr]_vars

\* reset was called while the only operation invoked so far was in flight:
\* nothing else could have brought loadingState back to `idle`.
C29_Witness ==
    /\ loadingState = "idle" /\ error = NullStr
    /\ ops[1].pc = "awaiting"
    /\ \A o \in OpIds : o # 1 => ops[o].pc = "new"


\* C30: the canonical messages of BASE_ERROR_CODES are pairwise distinct, so
\* a message is the canonical message of at most one code and the lookup by
\* message gives that code's friendly text whatever the order of the scan; and
\* for an error without a code, AUTH_ERROR_HANDLERS.signUp returns what
\* getUserFriendlyErrorMessage returns.
CodesWithMessage(message) == {c \in BetterAuthErrorCode : BASE_ERROR_CODES[c] = message}

C30_CanonicalMessagesDistinctAndSignUpAgrees ==
    /\ \A a, b \in BetterAuthErrorCode :
          a # b => BASE_ERROR_CODES[a] # BASE_ERROR_CODES[b]
    /\ input.error # NullObj =>
          LET found == CodesWithMessage(input.error.message)
          IN  /\ Cardinality(found) <= 1
              /\ ScanBaseMessages(input.error.message, 1) =
                    IF found = {} THEN Undefined
                    ELSE USER_FRIENDLY_ERROR_MESSAGES[CHOOSE c \in found : TRUE]
    /\ (call.op = "signUp" /\ input.error.code = Undefined)
          => call.ret = getUserFriendlyErrorMessage(input.error)

\* signUp got the canonical message of USER_ALREADY_EXISTS without a code and
\* answered with the phrase the friendly table holds for that code.
C30_Witness ==
    /\ call.op = "signUp"
    /\ input.error # NullObj
    /\ input.error = [code |-> Undefined, message |-> BASE_ERROR_CODES["USER_ALREADY_EXISTS"]]
    /\ call.ret = USER_FRIENDLY_ERROR_MESSAGES["USER_ALREADY_EXISTS"]

====
